---- MODULE Spec2Model ----
(***************************************************************************)
(* A model of kde_diffusion/kde2d.py: kernel density estimation via        *)
(* diffusion for two-dimensional data.                                     *)
(*                                                                         *)
(* Three specifications share this module:                                 *)
(*   Spec      the kde2d pipeline, one action per block of the function;   *)
(*   SpecT     the forward/inverse cosine transform with its row-0 and     *)
(*             column-0 scaling, computed exactly in the ring Z[zeta];     *)
(*   SpecPsi   the recursive evaluation of the inner function psi, as a    *)
(*             call stack.                                                 *)
(*                                                                         *)
(* Coordinates are integers counting quarters of a unit, so that the       *)
(* quarter-range padding of the limits is exact.  The library routines     *)
(* the function calls (histogram2d, dctn, idctn, brentq) are modelled at   *)
(* their call sites by what they return or raise.                          *)
(***************************************************************************)
EXTENDS Integers, Sequences, FiniteSets, TLC

VARIABLES
    \* ---- kde2d pipeline (Spec) ----
    pc,          \* position in kde2d
    x, y,        \* the samples
    n0,          \* the requested resolution (argument n)
    n,           \* the local n (rebound on line 61)
    limits,      \* the limits argument
    N,           \* len(x), <<>> before line 56
    xmin, xmax, ymin, ymax,   \* resolved limits; None before line 63
    binned,      \* histogram counts, a function on (0..n-1) \X (0..n-1)
    grid,        \* <<xgrid, ygrid>>, each a sequence of edge numerators over n
    transformed, \* summary of the coefficient matrix
    ts,          \* the root brentq returned, None before / without one
    tx1, tx2,    \* diffusion times
    smoothed,    \* summary of the filtered coefficients
    inverse,     \* summary of idctn(smoothed)
    result,      \* None, or <<[density, grid, bandwidth]>> once returned
    err,         \* "" or the exception kde2d ended with
    started,     \* the pipeline blocks that have begun, in order
    brentqCalls, \* number of calls of brentq
    \* ---- transform round trip (SpecT) ----
    tpc,         \* position in the round trip
    tn,          \* matrix size
    M,           \* the input matrix
    D,           \* dctn(M) as line 108 returned it, kept for comparison
    C,           \* the coefficients, scaled in place
    R,           \* idctn of the coefficients
    \* ---- psi evaluation (SpecPsi) ----
    stack, calls, maxDepth, evals, psiDone

pvars == <<pc, x, y, n0, n, limits, N, xmin, xmax, ymin, ymax, binned, grid,
           transformed, ts, tx1, tx2, smoothed, inverse, result, err,
           started, brentqCalls>>
tvars == <<tpc, tn, M, D, C, R>>
svars == <<stack, calls, maxDepth, evals, psiDone>>
vars == <<pvars, tvars, svars>>

-----------------------------------------------------------------------------
(* Bounds of the model. *)
MaxLen == 2      \* samples per axis: 0..MaxLen
MaxN == 5        \* requested resolution: 1..MaxN

(* Quarter units: delta/4 on lines 90, 92, 96, 98. *)
Q == 4

(* NaN among the diffusion times and what is computed from them. *)
NaN == 0 - 1
(* A product with a finite second factor. *)
FMul(a, b) == IF a = NaN THEN NaN ELSE a * b

None == <<>>
Some(v) == <<v>>
IsNone(o) == o = <<>>

SampleVals == {0, Q}
(* The diffusion times tx1 and tx2 take these values (abstract units). *)
TimeVals == {1, 2}

RECURSIVE SeqsUpTo(_, _)
SeqsUpTo(S, k) ==
    IF k = 0 THEN {<<>>}
    ELSE LET shorter == SeqsUpTo(S, k - 1)
         IN  shorter \cup {Append(s, v) : s \in {q \in shorter : Len(q) = k - 1}, v \in S}

Samples == SeqsUpTo(SampleVals, MaxLen)

(* One axis of limits: None, a scalar, or a (min, max) tuple whose entries may
   be None.  The tuples cover a proper, a reversed and a half-open range. *)
AxisLimits ==
    {<<"none">>,
     <<"scalar", Q>>, <<"scalar", 0>>,
     <<"tuple", None, None>>,
     <<"tuple", None, Some(Q)>>, <<"tuple", Some(0), None>>,
     <<"tuple", Some(0), Some(Q)>>, <<"tuple", Some(Q), Some(0)>>}

(* The limits argument: None, a scalar, or a tuple of two axis limits. *)
Limits ==
    {<<"none">>, <<"scalar", Q>>, <<"scalar", 0>>}
        \cup {<<"tuple", xl, yl>> : xl \in AxisLimits, yl \in AxisLimits}

-----------------------------------------------------------------------------
(* Helpers. *)

RECURSIVE SeqMax(_)
SeqMax(s) ==
    IF Len(s) = 1 THEN s[1]
    ELSE LET m == SeqMax(Tail(s)) IN IF s[1] > m THEN s[1] ELSE m

RECURSIVE SeqMin(_)
SeqMin(s) ==
    IF Len(s) = 1 THEN s[1]
    ELSE LET m == SeqMin(Tail(s)) IN IF s[1] < m THEN s[1] ELSE m

RECURSIVE Pow2(_)
Pow2(e) == IF e = 0 THEN 1 ELSE 2 * Pow2(e - 1)

(* ceil(log2(m)) for an integer m >= 1. *)
RECURSIVE CeilLog2(_)
CeilLog2(m) == IF m <= 1 THEN 0 ELSE 1 + CeilLog2((m + 1) \div 2)

(* floor(log2(m)) for an integer m >= 1. *)
RECURSIVE FloorLog2(_)
FloorLog2(m) == IF m <= 1 THEN 0 ELSE 1 + FloorLog2(m \div 2)

(* 2**(floor(log2(n)) + 1): the next power of two strictly above n. *)
CoerceNStrict(m) == Pow2(FloorLog2(m) + 1)

(* Line 61: n = int(2**ceil(log2(n))). *)
CoerceN(m) == Pow2(CeilLog2(m))

-----------------------------------------------------------------------------
(* Lines 63-100: limits. *)

(* Lines 68-74 and 75-81: one axis of a limits tuple, as <<min, max>>. *)
AxisUnpack(al) ==
    IF al[1] = "none" THEN <<None, None>>
    ELSE IF al[1] = "tuple" THEN <<al[2], al[3]>>
    ELSE <<Some(0 - al[2]), Some(al[2])>>

(* Lines 64-86: <<xmin, xmax, ymin, ymax>>, each None or a number. *)
UnpackLimits(lim) ==
    IF lim[1] = "none" THEN <<None, None, None, None>>
    ELSE IF lim[1] = "tuple"
         THEN AxisUnpack(lim[2]) \o AxisUnpack(lim[3])
         ELSE <<Some(0 - lim[2]), Some(lim[2]), Some(0 - lim[2]), Some(lim[2])>>

(* "None in (min, max)" on lines 87 and 93. *)
NeedsData(lo, hi) == IsNone(lo) \/ IsNone(hi)

(* The lower bound padded by half the range instead of a quarter. *)
InferMinHalf(lo, data) ==
    IF IsNone(lo)
    THEN LET delta == SeqMax(data) - SeqMin(data)
         IN  Some(SeqMin(data) - delta \div 2)
    ELSE lo

(* Lines 88-90 and 94-96: the lower bound. *)
InferMin(lo, data) ==
    IF IsNone(lo)
    THEN LET delta == SeqMax(data) - SeqMin(data)
         IN  Some(SeqMin(data) - delta \div Q)
    ELSE lo

(* Lines 88, 91-92 and 94, 97-98: the upper bound. *)
InferMax(hi, data) ==
    IF IsNone(hi)
    THEN LET delta == SeqMax(data) - SeqMin(data)
         IN  Some(SeqMax(data) + delta \div Q)
    ELSE hi

(* Lines 99-100. *)
Dx == xmax[1] - xmin[1]
Dy == ymax[1] - ymin[1]

-----------------------------------------------------------------------------
(* Lines 102-105: histogram2d(x, y, bins=n, range=...) and the grid. *)

(* numpy expands an empty range by one half on each side. *)
OuterLo(lo, hi) == IF lo = hi THEN lo - Q \div 2 ELSE lo
OuterHi(lo, hi) == IF lo = hi THEN hi + Q \div 2 ELSE hi

(* The n+1 bin edges, as numerators over the denominator bins. *)
Edges(lo, hi, bins) ==
    [k \in 1..(bins + 1) |->
        OuterLo(lo, hi) * bins + (k - 1) * (OuterHi(lo, hi) - OuterLo(lo, hi))]

(* The bin of v, or -1 when v lies outside the range; the last bin is closed. *)
BinOf(v, lo, hi, bins) ==
    LET a == OuterLo(lo, hi)
        b == OuterHi(lo, hi)
    IN  IF v < a \/ v > b THEN 0 - 1
        ELSE IF v = b THEN bins - 1
        ELSE ((v - a) * bins) \div (b - a)

Histogram(xs, ys, bins, xlo, xhi, ylo, yhi) ==
    [c \in (0..(bins - 1)) \X (0..(bins - 1)) |->
        Cardinality({k \in 1..Len(xs) :
            /\ BinOf(xs[k], xlo, xhi, bins) = c[1]
            /\ BinOf(ys[k], ylo, yhi, bins) = c[2]})]

(* xedges[:-1] *)
LeftEdges(e) == SubSeq(e, 1, Len(e) - 1)

-----------------------------------------------------------------------------
(* The kde2d pipeline. *)

Init ==
    /\ pc = "call"
    /\ x \in Samples
    /\ y \in Samples
    /\ n0 \in 1..MaxN
    /\ n = n0
    /\ limits \in Limits
    /\ N = None
    /\ xmin = None /\ xmax = None /\ ymin = None /\ ymax = None
    /\ binned = None
    /\ grid = None
    /\ transformed = None
    /\ ts = None
    /\ tx1 = None /\ tx2 = None
    /\ smoothed = None
    /\ inverse = None
    /\ result = None
    /\ err = ""
    /\ started = <<>>
    /\ brentqCalls = 0

Raise(e) == pc' = "raised" /\ err' = e

(* Line 58. *)
LengthMismatch == "ValueError: x and y must have the same length."
(* Line 142. *)
ConvergenceFailure == "ValueError: Bandwidth optimization did not converge."
(* What brentq raises when it runs out of iterations; not caught on line 141. *)
BrentqNotConverged == "RuntimeError: Failed to converge after 100 iterations."

(* Line 57, with N = len(x). *)
LengthsDifferBelow(xs, ys) == Len(ys) < Len(xs)
LengthsDiffer(xs, ys) == Len(ys) # Len(xs)

(* Lines 51-58. *)
Validate ==
    /\ pc = "call"
    /\ N' = Some(Len(x))
    /\ IF LengthsDiffer(x, y)
       THEN Raise(LengthMismatch)
       ELSE pc' = "coerce" /\ err' = err
    /\ UNCHANGED <<x, y, n0, n, limits, xmin, xmax, ymin, ymax, binned, grid,
                   transformed, ts, tx1, tx2, smoothed, inverse, result,
                   started, brentqCalls>>
    /\ UNCHANGED <<tvars, svars>>

(* Lines 60-61. *)
Coerce ==
    /\ pc = "coerce"
    /\ started' = Append(started, "coerce")
    /\ n' = CoerceN(n)
    /\ pc' = "limits"
    /\ UNCHANGED <<x, y, n0, limits, N, xmin, xmax, ymin, ymax, binned, grid,
                   transformed, ts, tx1, tx2, smoothed, inverse, result, err,
                   brentqCalls>>
    /\ UNCHANGED <<tvars, svars>>

(* Lines 63-100.  x.max() of an empty array raises ValueError. *)
ResolveLimits ==
    /\ pc = "limits"
    /\ started' = Append(started, "limits")
    /\ LET u == UnpackLimits(limits)
       IN  IF \/ NeedsData(u[1], u[2]) /\ Len(x) = 0
              \/ NeedsData(u[3], u[4]) /\ Len(y) = 0
           THEN /\ Raise("ValueError: zero-size array to reduction operation")
                /\ UNCHANGED <<xmin, xmax, ymin, ymax>>
           ELSE /\ xmin' = InferMin(u[1], x)
                /\ xmax' = InferMax(u[2], x)
                /\ ymin' = InferMin(u[3], y)
                /\ ymax' = InferMax(u[4], y)
                /\ pc' = "bin"
                /\ err' = err
    /\ UNCHANGED <<x, y, n0, n, limits, N, binned, grid, transformed, ts, tx1,
                   tx2, smoothed, inverse, result, brentqCalls>>
    /\ UNCHANGED <<tvars, svars>>

(* Lines 102-105.  histogram2d raises ValueError for a reversed range. *)
Bin ==
    /\ pc = "bin"
    /\ started' = Append(started, "bin")
    /\ IF xmin[1] > xmax[1] \/ ymin[1] > ymax[1]
       THEN /\ Raise("ValueError: max must be larger than min in range parameter.")
            /\ UNCHANGED <<binned, grid>>
       ELSE /\ binned' = Histogram(x, y, n, xmin[1], xmax[1], ymin[1], ymax[1])
            /\ grid' = <<LeftEdges(Edges(xmin[1], xmax[1], n)),
                         LeftEdges(Edges(ymin[1], ymax[1], n))>>
            /\ pc' = "transform"
            /\ err' = err
    /\ UNCHANGED <<x, y, n0, n, limits, N, xmin, xmax, ymin, ymax, transformed,
                   ts, tx1, tx2, smoothed, inverse, result, brentqCalls>>
    /\ UNCHANGED <<tvars, svars>>

(* Lines 107-115: dctn(binned/N), then row 0 and column 0 halved.  scale0 counts
   the halvings of row 0 and column 0 still in effect; binned/N is 0/0 for N = 0. *)
Transform ==
    /\ pc = "transform"
    /\ started' = Append(started, "transform")
    /\ transformed' = [shape |-> <<n, n>>, finite |-> N[1] # 0, scale0 |-> 1]
    /\ pc' = "solve"
    /\ UNCHANGED <<x, y, n0, n, limits, N, xmin, xmax, ymin, ymax, binned, grid,
                   ts, tx1, tx2, smoothed, inverse, result, err, brentqCalls>>
    /\ UNCHANGED <<tvars, svars>>

(* Lines 119-136: whether t - gamma(t) is NaN for every t.  psi(i, j, t) sums
   a2[r, c] with weights that vanish at r = 0 when j > 0 and at c = 0 when
   i > 0.  If every coefficient with r, c >= 1 is zero, which is so exactly when
   the histogram is a row profile plus a column profile (in particular when it
   is empty or n = 1), then psi(i, j) = 0 for i, j >= 1, the sum on line 126 is
   0 in a call with i + j = 4, line 130 divides by it, t is infinite and line
   133 computes exp(-0*inf) = NaN.  binned/N is NaN throughout for N = 0.
   Otherwise every such sum is nonzero and the residual is finite. *)
ResidualNaN ==
    \/ N[1] = 0
    \/ \A c \in DOMAIN binned :
           binned[c] + binned[<<0, 0>>] = binned[<<c[1], 0>>] + binned[<<0, c[2]>>]

(* What brentq(f, 0, 0.1) does: return a root, raise ValueError (f(0) and
   f(0.1) do not differ in sign, or f is NaN), or raise RuntimeError (no
   convergence within its iteration limit).  Whether a finite residual changes
   sign is not derived here.  For a NaN residual brentq raises ValueError or,
   in releases without that check, returns some point of the bracket. *)
BrentqOutcomes ==
    IF ResidualNaN THEN {"root", "ValueError"}
    ELSE {"root", "ValueError", "RuntimeError"}

(* Lines 138-142: only ValueError is caught and re-raised. *)
SolveOutcome(o) ==
    /\ brentqCalls' = brentqCalls + 1
    /\ IF o = "root"
       THEN ts' = Some(1) /\ pc' = "times" /\ err' = err
       ELSE IF o = "ValueError"
            THEN /\ Raise(ConvergenceFailure)
                 /\ ts' = ts
            ELSE /\ Raise(BrentqNotConverged)
                 /\ ts' = ts

Solve ==
    /\ pc = "solve"
    /\ started' = Append(started, "solve")
    /\ \E o \in BrentqOutcomes : SolveOutcome(o)
    /\ UNCHANGED <<x, y, n0, n, limits, N, xmin, xmax, ymin, ymax, binned, grid,
                   transformed, tx1, tx2, smoothed, inverse, result>>
    /\ UNCHANGED <<tvars, svars>>

(* Lines 144-149: tx1 and tx2 from psi(0,2), psi(2,0), psi(1,1) at ts; NaN when
   psi is. *)
DiffusionTimes ==
    /\ pc = "times"
    /\ started' = Append(started, "times")
    /\ IF ResidualNaN
       THEN tx1' = Some(NaN) /\ tx2' = Some(NaN)
       ELSE \E a \in TimeVals, b \in TimeVals : tx1' = Some(a) /\ tx2' = Some(b)
    /\ pc' = "smooth"
    /\ UNCHANGED <<x, y, n0, n, limits, N, xmin, xmax, ymin, ymax, binned, grid,
                   transformed, ts, smoothed, inverse, result, err, brentqCalls>>
    /\ UNCHANGED <<tvars, svars>>

(* Lines 170-172: transformed * outer(exp(-pi^2 k2 tx2/2), exp(-pi^2 k2 tx1/2)).
   The first argument of outer runs along the rows.  rowDecay[k] and colDecay[k]
   are the exponents (in units of -pi^2/2), so coefficient [a, b] is multiplied
   by exp(-pi^2/2 * (rowDecay[a] + colDecay[b])). *)
RowTimeSwapped == tx1[1]
RowTime == tx2[1]
ColTime == tx1[1]

Smooth ==
    /\ pc = "smooth"
    /\ started' = Append(started, "smooth")
    /\ smoothed' = [shape |-> transformed.shape,
                    finite |-> transformed.finite /\ RowTime # NaN /\ ColTime # NaN,
                    scale0 |-> transformed.scale0,
                    rowDecay |-> [k \in 0..(n - 1) |-> FMul(RowTime, k * k)],
                    colDecay |-> [k \in 0..(n - 1) |-> FMul(ColTime, k * k)]]
    /\ pc' = "inverse"
    /\ UNCHANGED <<x, y, n0, n, limits, N, xmin, xmax, ymin, ymax, binned, grid,
                   transformed, ts, tx1, tx2, inverse, result, err, brentqCalls>>
    /\ UNCHANGED <<tvars, svars>>

(* Lines 174-177: row 0 and column 0 of smoothed doubled in place, then idctn. *)
Reverse ==
    /\ pc = "inverse"
    /\ started' = Append(started, "inverse")
    /\ smoothed' = [smoothed EXCEPT !.scale0 = @ - 1]
    /\ inverse' = [shape |-> smoothed.shape, finite |-> smoothed.finite]
    /\ pc' = "normalize"
    /\ UNCHANGED <<x, y, n0, n, limits, N, xmin, xmax, ymin, ymax, binned, grid,
                   transformed, ts, tx1, tx2, result, err, brentqCalls>>
    /\ UNCHANGED <<tvars, svars>>

(* Line 180: inverse * n/dx * n/dy.  Division by a zero range leaves no finite
   entry (0/0 is NaN, anything else over 0 is infinite). *)
Density ==
    [shape |-> inverse.shape,
     finite |-> inverse.finite /\ Dx # 0 /\ Dy # 0,
     num |-> n * n,
     den |-> Dx * Dy]

(* Line 183: [sqrt(tx2)*dx, sqrt(tx1)*dy], kept as the squares of its entries. *)
Bandwidth == <<FMul(tx2[1], Dx * Dx), FMul(tx1[1], Dy * Dy)>>

(* Lines 179-186. *)
Finish ==
    /\ pc = "normalize"
    /\ started' = Append(started, "normalize")
    /\ result' = Some([density |-> Density, grid |-> grid, bandwidth |-> Bandwidth])
    /\ pc' = "returned"
    /\ UNCHANGED <<x, y, n0, n, limits, N, xmin, xmax, ymin, ymax, binned, grid,
                   transformed, ts, tx1, tx2, smoothed, inverse, err, brentqCalls>>
    /\ UNCHANGED <<tvars, svars>>

PNext ==
    \/ Validate
    \/ Coerce
    \/ ResolveLimits
    \/ Bin
    \/ Transform
    \/ Solve
    \/ DiffusionTimes
    \/ Smooth
    \/ Reverse
    \/ Finish

-----------------------------------------------------------------------------
(* The cosine transform, exactly.                                          *)
(*                                                                         *)
(* For a size nn that is a power of two, zeta = exp(i*pi/(2*nn)) is a      *)
(* primitive (4*nn)-th root of unity with zeta^(2*nn) = -1, and            *)
(* 1, zeta, ..., zeta^(2*nn-1) is a basis of Z[zeta] over Z.  A ring       *)
(* element is its coefficient vector on that basis, and                    *)
(* 2*cos(pi*e/(2*nn)) = zeta^e + zeta^(-e).  A coefficient is a ring       *)
(* element over a power-of-two denominator: [num, den].                    *)

RInt(nn, a) == [j \in 0..(2 * nn - 1) |-> IF j = 0 THEN a ELSE 0]
RAdd(u, v) == [j \in DOMAIN u |-> u[j] + v[j]]
RScale(c, u) == [j \in DOMAIN u |-> c * u[j]]

(* zeta^m * v, for m in 0..4*nn-1. *)
MulZeta(nn, v, m) ==
    [j \in 0..(2 * nn - 1) |->
        LET i == (j - m + 4 * nn) % (2 * nn)
            w == (i + m) \div (2 * nn)
        IN  IF w % 2 = 0 THEN v[i] ELSE 0 - v[i]]

(* 2*cos(pi*e/(2*nn)) * v *)
TwoCos(nn, v, e) ==
    LET r == e % (4 * nn)
    IN  RAdd(MulZeta(nn, v, r), MulZeta(nn, v, (4 * nn - r) % (4 * nn)))

QInt(nn, a) == [num |-> RInt(nn, a), den |-> 1]
QAdd(a, b) ==
    LET d == IF a.den >= b.den THEN a.den ELSE b.den
    IN  [num |-> RAdd(RScale(d \div a.den, a.num), RScale(d \div b.den, b.num)),
         den |-> d]
QTwoCos(nn, a, e) == [num |-> TwoCos(nn, a.num, e), den |-> a.den]
QDiv(a, d) == [num |-> a.num, den |-> a.den * d]
QMul(a, c) == [num |-> RScale(c, a.num), den |-> a.den]
QEq(a, b) == RScale(b.den, a.num) = RScale(a.den, b.num)

Idx(nn) == 0..(nn - 1)
Cells(nn) == Idx(nn) \X Idx(nn)

(* scipy's dct, type 2, unnormalised, along one axis of A:
   y[k] = 2 * sum_m x[m] * cos(pi*k*(2m+1)/(2nn)). *)
DctAxis(nn, A, axis) ==
    [c \in Cells(nn) |->
        LET k == c[axis]
            term(m) == QTwoCos(nn, A[IF axis = 1 THEN <<m, c[2]>> ELSE <<c[1], m>>],
                               k * (2 * m + 1))
            S[m \in Idx(nn)] == IF m = 0 THEN term(0) ELSE QAdd(S[m - 1], term(m))
        IN  S[nn - 1]]

(* scipy's idct, type 2, unnormalised, along one axis of A:
   x[m] = (y[0] + 2 * sum_{k>=1} y[k] * cos(pi*k*(2m+1)/(2nn))) / (2nn). *)
IdctAxis(nn, A, axis) ==
    [c \in Cells(nn) |->
        LET m == c[axis]
            at(k) == A[IF axis = 1 THEN <<k, c[2]>> ELSE <<c[1], k>>]
            S[k \in Idx(nn)] ==
                IF k = 0 THEN at(0)
                ELSE QAdd(S[k - 1], QTwoCos(nn, at(k), k * (2 * m + 1)))
        IN  QDiv(S[nn - 1], 2 * nn)]

(* Line 108: dctn transforms along axis 0, then along axis 1.  (The comparison
   makes TLC evaluate the intermediate matrix once rather than per use.) *)
dctn(nn, A) ==
    LET A1 == DctAxis(nn, [c \in Cells(nn) |-> QInt(nn, A[c])], 1)
    IN  IF A1 = A1 THEN DctAxis(nn, A1, 2) ELSE A1

(* Line 177: idctn, likewise. *)
idctn(nn, A) ==
    LET A1 == IdctAxis(nn, A, 1)
    IN  IF A1 = A1 THEN IdctAxis(nn, A1, 2) ELSE A1

(* Lines 109-110: transformed[0, :] /= 2; transformed[:, 0] /= 2. *)
HalveRow0(nn, A) == [c \in Cells(nn) |-> IF c[1] = 0 THEN QDiv(A[c], 2) ELSE A[c]]
HalveCol0(nn, A) == [c \in Cells(nn) |-> IF c[2] = 0 THEN QDiv(A[c], 2) ELSE A[c]]

(* Column 0 doubled except the corner, as if row 0 had covered it. *)
DoubleCol0SkipCorner(nn, A) ==
    [c \in Cells(nn) |-> IF c[2] = 0 /\ c[1] # 0 THEN QMul(A[c], 2) ELSE A[c]]

(* Lines 175-176: smoothed[0, :] *= 2; smoothed[:, 0] *= 2. *)
DoubleRow0(nn, A) == [c \in Cells(nn) |-> IF c[1] = 0 THEN QMul(A[c], 2) ELSE A[c]]
DoubleCol0(nn, A) == [c \in Cells(nn) |-> IF c[2] = 0 THEN QMul(A[c], 2) ELSE A[c]]

(* Bounds of the transform check: matrix sizes, the number of nonzero
   entries, and their magnitude. *)
MaxEntry == 1
TSizes == {1, 2, 4}
TVals == (0 - MaxEntry)..MaxEntry

ZeroMatrix(nn) == [c \in Cells(nn) |-> 0]

RECURSIVE SparseMatrices(_, _)
SparseMatrices(nn, k) ==
    IF k = 0 THEN {ZeroMatrix(nn)}
    ELSE LET fewer == SparseMatrices(nn, k - 1)
         IN  fewer \cup {[A EXCEPT ![c] = v] : A \in fewer, c \in Cells(nn), v \in TVals}

(* The zero matrix and the matrices with one or two nonzero entries. *)
TMatrices(nn) == SparseMatrices(nn, 2)

TInit ==
    /\ tpc = "matrix"
    /\ tn \in TSizes
    /\ M \in TMatrices(tn)
    /\ D = None
    /\ C = None
    /\ R = None

(* Line 108. *)
TDctn ==
    /\ tpc = "matrix"
    /\ C' = dctn(tn, M)
    /\ D' = C'
    /\ tpc' = "dctn"
    /\ UNCHANGED <<tn, M, R>>
    /\ UNCHANGED <<pvars, svars>>

(* Lines 109-110. *)
THalve ==
    /\ tpc = "dctn"
    /\ C' = HalveCol0(tn, HalveRow0(tn, C))
    /\ tpc' = "forward"
    /\ UNCHANGED <<tn, M, D, R>>
    /\ UNCHANGED <<pvars, svars>>

(* Lines 175-176. *)
TDouble ==
    /\ tpc = "forward"
    /\ C' = DoubleCol0(tn, DoubleRow0(tn, C))
    /\ tpc' = "doubled"
    /\ UNCHANGED <<tn, M, D, R>>
    /\ UNCHANGED <<pvars, svars>>

(* Line 177. *)
TIdctn ==
    /\ tpc = "doubled"
    /\ R' = idctn(tn, C)
    /\ tpc' = "inverse"
    /\ UNCHANGED <<tn, M, D, C>>
    /\ UNCHANGED <<pvars, svars>>

TNext == TDctn \/ THalve \/ TDouble \/ TIdctn

-----------------------------------------------------------------------------
(* Lines 124-136: psi(i, j, t), as a call stack.                           *)
(*                                                                         *)
(* A frame holds the arguments i, j, t of one call, whether its local t    *)
(* has been rebound on line 130, the number of recursive calls it has      *)
(* made, and its position.  t is a token naming the value passed in.       *)

MaxTok == 2      \* tokens for the t of an outer call
MaxStack == 8    \* cap on the call stack

(* The outer calls: lines 120 and 145-147. *)
EntryPoints == {<<0, 2>>, <<2, 0>>, <<1, 1>>}

RecursesOffByOne(i, j) == i + j <= 5
(* Line 125. *)
Recurses(i, j) == i + j <= 4

Frame(i, j, t) == [i |-> i, j |-> j, t |-> t, refined |-> FALSE, made |-> 0, at |-> "test"]

Top == stack[Len(stack)]
SetTop(f) == [stack EXCEPT ![Len(stack)] = f]
Push(st, f) == Append(st, f)

(* Line 126, first operand: psi(i+1, j, t). *)
FirstCall(f) == Frame(f.i + 1, f.j, f.t)
(* Line 126, second operand: psi(i, j+1, t). *)
SecondCall(f) == Frame(f.i, f.j + 1, f.t)

Edge(f, g) == [pi |-> f.i, pj |-> f.j, pt |-> f.t, ci |-> g.i, cj |-> g.j, ct |-> g.t]

Max(a, b) == IF a >= b THEN a ELSE b

SIdle ==
    /\ stack = <<>>
    /\ calls = {}
    /\ maxDepth = 0
    /\ evals = {}
    /\ psiDone = TRUE

(* An outer call of psi. *)
PsiEntry ==
    /\ stack = <<>>
    /\ \E e \in EntryPoints, t \in 1..MaxTok : stack' = <<Frame(e[1], e[2], t)>>
    /\ calls' = {}
    /\ evals' = {}
    /\ maxDepth' = 1
    /\ psiDone' = FALSE
    /\ UNCHANGED <<pvars, tvars>>

(* Lines 125-126: the test holds; the first recursive call. *)
PsiRecurse1 ==
    /\ stack # <<>> /\ Top.at = "test"
    /\ Recurses(Top.i, Top.j)
    /\ Len(stack) < MaxStack
    /\ stack' = Push(SetTop([Top EXCEPT !.at = "wait1", !.made = 1]), FirstCall(Top))
    /\ calls' = calls \cup {Edge(Top, FirstCall(Top))}
    /\ maxDepth' = Max(maxDepth, Len(stack) + 1)
    /\ UNCHANGED <<evals, psiDone>>
    /\ UNCHANGED <<pvars, tvars>>

(* Line 125: the test fails; the body of the if is skipped. *)
PsiLeaf ==
    /\ stack # <<>> /\ Top.at = "test"
    /\ ~Recurses(Top.i, Top.j)
    /\ stack' = SetTop([Top EXCEPT !.at = "eval"])
    /\ UNCHANGED <<calls, maxDepth, evals, psiDone>>
    /\ UNCHANGED <<pvars, tvars>>

(* Line 126: the second recursive call. *)
PsiRecurse2 ==
    /\ stack # <<>> /\ Top.at = "ret1"
    /\ Len(stack) < MaxStack
    /\ stack' = Push(SetTop([Top EXCEPT !.at = "wait2", !.made = 2]), SecondCall(Top))
    /\ calls' = calls \cup {Edge(Top, SecondCall(Top))}
    /\ maxDepth' = Max(maxDepth, Len(stack) + 1)
    /\ UNCHANGED <<evals, psiDone>>
    /\ UNCHANGED <<pvars, tvars>>

(* Lines 127-130: the local t is rebound. *)
PsiRefine ==
    /\ stack # <<>> /\ Top.at = "ret2"
    /\ stack' = SetTop([Top EXCEPT !.at = "eval", !.refined = TRUE])
    /\ UNCHANGED <<calls, maxDepth, evals, psiDone>>
    /\ UNCHANGED <<pvars, tvars>>

(* Lines 131-136: the formula is evaluated and the call returns. *)
PsiReturn ==
    /\ stack # <<>> /\ Top.at = "eval"
    /\ evals' = evals \cup {[i |-> Top.i, j |-> Top.j, t |-> Top.t,
                             refined |-> Top.refined, made |-> Top.made,
                             depth |-> Len(stack)]}
    /\ LET rest == SubSeq(stack, 1, Len(stack) - 1)
       IN  IF rest = <<>>
           THEN stack' = rest /\ psiDone' = TRUE
           ELSE /\ stack' = [rest EXCEPT ![Len(rest)].at =
                                IF @ = "wait1" THEN "ret1" ELSE "ret2"]
                /\ psiDone' = psiDone
    /\ UNCHANGED <<calls, maxDepth>>
    /\ UNCHANGED <<pvars, tvars>>

PsiNext ==
    \/ PsiEntry
    \/ PsiRecurse1
    \/ PsiLeaf
    \/ PsiRecurse2
    \/ PsiRefine
    \/ PsiReturn

-----------------------------------------------------------------------------
(* Specifications. *)

PIdle ==
    /\ pc = "idle"
    /\ x = <<>> /\ y = <<>>
    /\ n0 = 1 /\ n = 1
    /\ limits = <<"none">>
    /\ N = None
    /\ xmin = None /\ xmax = None /\ ymin = None /\ ymax = None
    /\ binned = None /\ grid = None /\ transformed = None
    /\ ts = None /\ tx1 = None /\ tx2 = None
    /\ smoothed = None /\ inverse = None /\ result = None
    /\ err = "" /\ started = <<>> /\ brentqCalls = 0

TIdle ==
    /\ tpc = "idle"
    /\ tn = 1
    /\ M = None /\ D = None /\ C = None /\ R = None

(* kde2d is called; the other two machines rest. *)
PInit == Init /\ TIdle /\ SIdle
Next == PNext
Spec == PInit /\ [][Next]_vars

(* A matrix is handed to the transform. *)
TStart == PIdle /\ TInit /\ SIdle
SpecT == TStart /\ [][TNext]_vars

(* psi is called from outside. *)
PsiStart == PIdle /\ TIdle /\ SIdle
SpecPsi == PsiStart /\ [][PsiNext]_vars

(* psi runs to completion once called: the interpreter does not stop mid-call. *)
FairSpecPsi == SpecPsi /\ WF_vars(PsiRecurse1) /\ WF_vars(PsiLeaf) /\ WF_vars(PsiRecurse2)
                       /\ WF_vars(PsiRefine) /\ WF_vars(PsiReturn)

-----------------------------------------------------------------------------
(* Properties. *)

IsPow2(k) == \E e \in 0..k : Pow2(e) = k
SmallestPow2Geq(m) == CHOOSE k \in m..(2 * m) : IsPow2(k) /\ \A j \in m..(k - 1) : ~IsPow2(j)

Terminal == pc \in {"returned", "raised"}
ZeroSpread(s) == Len(s) >= 1 /\ SeqMax(s) = SeqMin(s)
(* brentq was called and gave no root. *)
SolverFailed == brentqCalls >= 1 /\ ts = None

(* C1: a call that returns normally returns a density of shape n' x n', where
   n' is the smallest power of two that is >= the requested n. *)
C1_DensityShape ==
    pc = "returned" =>
        LET np == SmallestPow2Geq(n0)
        IN  result[1].density.shape = <<np, np>>

C1_Witness ==
    /\ pc = "returned"
    /\ n0 = 5
    /\ result[1].density.shape = <<8, 8>>

(* C2: with len(x) # len(y), kde2d ends with the length-mismatch ValueError
   and nothing after the validation has begun: no limits, no histogram, no
   transform, no root-finding, no result. *)
C2_LengthMismatchFirst ==
    Len(x) # Len(y) =>
        /\ pc = "call" \/ (pc = "raised" /\ err = LengthMismatch)
        /\ started = <<>>
        /\ xmin = None /\ xmax = None /\ ymin = None /\ ymax = None
        /\ brentqCalls = 0
        /\ result = None

C2_Witness ==
    /\ Len(x) = 2 /\ Len(y) = 1
    /\ limits # <<"none">>
    /\ pc = "raised"
    /\ err = LengthMismatch

(* C3: whenever brentq fails, for want of a sign change or of convergence,
   kde2d ends with the error 'Bandwidth optimization did not converge.', with
   no result, no value of t* and no diffusion times, and brentq was called
   exactly once. *)
C3_FailureIsConvergenceFailure ==
    SolverFailed =>
        /\ pc = "raised"
        /\ err = ConvergenceFailure
        /\ brentqCalls = 1
        /\ result = None
        /\ tx1 = None /\ tx2 = None
        /\ started[Len(started)] = "solve"

(* C4: per axis, an explicit bound is used unchanged, a scalar v gives
   (-v, +v), and an absent bound is the data minimum minus, or the data maximum
   plus, a quarter of the data range; limits=None infers all four. *)
AxisAsClaimed(al, lo, hi, data) ==
    /\ al[1] = "scalar" => lo = Some(0 - al[2]) /\ hi = Some(al[2])
    /\ al[1] = "tuple" /\ al[2] # None => lo = al[2]
    /\ al[1] = "tuple" /\ al[3] # None => hi = al[3]
    /\ al[1] = "none" \/ (al[1] = "tuple" /\ al[2] = None) =>
           Q * (SeqMin(data) - lo[1]) = SeqMax(data) - SeqMin(data)
    /\ al[1] = "none" \/ (al[1] = "tuple" /\ al[3] = None) =>
           Q * (hi[1] - SeqMax(data)) = SeqMax(data) - SeqMin(data)

C4_LimitsResolved ==
    xmin # None =>
        /\ xmax # None /\ ymin # None /\ ymax # None
        /\ AxisAsClaimed(IF limits[1] = "tuple" THEN limits[2] ELSE limits,
                         xmin, xmax, x)
        /\ AxisAsClaimed(IF limits[1] = "tuple" THEN limits[3] ELSE limits,
                         ymin, ymax, y)

C4_Witness ==
    /\ pc = "bin"
    /\ limits = <<"tuple", <<"tuple", None, Some(Q)>>, <<"scalar", Q>>>>
    /\ x = <<0, Q>>
    /\ xmin = Some(0 - 1) /\ xmax = Some(Q)
    /\ ymin = Some(0 - Q) /\ ymax = Some(Q)

(* C5: once the limits are resolved, for equal-length samples with N >= 1,
   xmax > xmin and ymax > ymin. *)
C5_PositiveRanges ==
    (xmin # None /\ N[1] >= 1) => (Dx > 0 /\ Dy > 0)

(* C6: for samples with zero spread on an axis and limits=None, kde2d either
   returns a density without NaN or infinite entries or fails because the
   root-finder failed; it does not stop anywhere else. *)
C6_ZeroSpreadOutcome ==
    (/\ Len(x) = Len(y)
     /\ limits = <<"none">>
     /\ ZeroSpread(x) \/ ZeroSpread(y)) =>
        /\ pc = "returned" => result[1].density.finite
        /\ pc = "raised" => SolverFailed
        /\ ~Terminal => ENABLED Next

(* C8: each returned grid has n' entries, the left edges of the n' equal bins
   between the resolved limits (so it starts at the lower limit), and is
   strictly increasing.  Grid entries are numerators over n'. *)
GridAsClaimed(g, lo, hi) ==
    /\ Len(g) = SmallestPow2Geq(n0)
    /\ \A k \in 1..Len(g) : g[k] = lo * Len(g) + (k - 1) * (hi - lo)
    /\ \A k \in 1..(Len(g) - 1) : g[k] < g[k + 1]

C8_GridLeftEdges ==
    pc = "returned" =>
        /\ GridAsClaimed(result[1].grid[1], xmin[1], xmax[1])
        /\ GridAsClaimed(result[1].grid[2], ymin[1], ymax[1])

(* C10: the diffusion time that filters the rows (the x axis of the histogram
   and of grid[0]) is the one in bandwidth[0], scaled by the x range, and the
   one that filters the columns is the one in bandwidth[1], scaled by the y
   range.  Bandwidths are squared; the grid spacing times n is the range. *)
C10_AxisPairing ==
    (pc = "returned" /\ n >= 2) =>
        LET r == result[1]
            dx == r.grid[1][2] - r.grid[1][1]
            dy == r.grid[2][2] - r.grid[2][1]
        IN  /\ Dx > 0 => r.bandwidth[1] = FMul(smoothed.rowDecay[1], dx * dx)
            /\ Dy > 0 => r.bandwidth[2] = FMul(smoothed.colDecay[1], dy * dy)

C10_Witness ==
    /\ pc = "returned"
    /\ n >= 2
    /\ Dx > 0 /\ Dy > 0 /\ Dx # Dy
    /\ tx1 # tx2
    /\ result[1].density.finite
    /\ result[1].bandwidth = <<tx2[1] * Dx * Dx, tx1[1] * Dy * Dy>>

(* C7: halving row 0 and column 0 divides entry [0,0] by 4 and the rest of
   row 0 and column 0 by 2; doubling them again restores dctn(M); and idctn of
   that is M. *)
C7_RoundTrip ==
    /\ tpc = "forward" =>
           \A c \in Cells(tn) :
               QEq(QMul(C[c], (IF c[1] = 0 THEN 2 ELSE 1) * (IF c[2] = 0 THEN 2 ELSE 1)),
                   D[c])
    /\ tpc = "doubled" => \A c \in Cells(tn) : QEq(C[c], D[c])
    /\ tpc = "inverse" => \A c \in Cells(tn) : QEq(R[c], QInt(tn, M[c]))

C7_Witness ==
    /\ tpc = "inverse"
    /\ tn = 4
    /\ M[<<0, 0>>] # 0 /\ M[<<2, 3>>] # 0
    /\ \A c \in Cells(tn) : QEq(R[c], QInt(tn, M[c]))

(* C9: a call of psi with i+j <= 4 makes exactly the two calls psi(i+1, j, t)
   and psi(i, j+1, t) with its own incoming t and then evaluates with the
   rebound t; a call with i+j > 4 makes none and evaluates with the t it was
   given; the stack never holds more than 5 calls; every outer call returns. *)
PsiStructure ==
    /\ Len(stack) <= 5 /\ maxDepth <= 5
    /\ \A e \in calls :
           /\ e.pi + e.pj <= 4
           /\ e.ci + e.cj = e.pi + e.pj + 1
           /\ <<e.ci, e.cj>> \in {<<e.pi + 1, e.pj>>, <<e.pi, e.pj + 1>>}
           /\ e.ct = e.pt
    /\ \A v \in evals :
           IF v.i + v.j <= 4
           THEN /\ v.made = 2 /\ v.refined
                /\ \E e \in calls : e.pi = v.i /\ e.pj = v.j /\ e.ci = v.i + 1 /\ e.ct = v.t
                /\ \E e \in calls : e.pi = v.i /\ e.pj = v.j /\ e.cj = v.j + 1 /\ e.ct = v.t
           ELSE v.made = 0 /\ ~v.refined

C9_PsiTerminates == []PsiStructure /\ (~psiDone ~> psiDone)

C9_Witness ==
    /\ psiDone
    /\ maxDepth = 4
    /\ \E v \in evals : v.i = 0 /\ v.j = 2 /\ v.made = 2 /\ v.refined /\ v.depth = 1
    /\ \E v \in evals : v.i + v.j = 5 /\ v.made = 0 /\ ~v.refined /\ v.depth = 4

====
